---- MODULE Spec2Model ----
(***************************************************************************)
(* Model of app.py: the in-memory Item Store behind /api/items, the        *)
(* metrics endpoint, and the JWT login / auth guard.                       *)
(***************************************************************************)
EXTENDS Integers, Sequences, FiniteSets, TLC

VARIABLES items, nextId, clock, resp, nreq, held, deleted, fresh, issued, pc, wreq, wresp

vars == <<items, nextId, clock, resp, nreq, held, deleted, fresh, issued, pc, wreq, wresp>>

----------------------------------------------------------------------------
(* Bounds *)

\* number of distinct uuid4 values the model can draw
MaxIds == 4
\* last instant of the clock in the store specification
MaxClock == 1
\* number of requests handled in one behaviour
MaxReq == 3
\* clock ticks per second: the clock counts ticks, int(time.time()) whole seconds
Res == 2
\* number of worker threads handling requests at the same time
NumWorkers == 2

Ids == 1..MaxIds

----------------------------------------------------------------------------
(* JSON objects are functions from keys to values; a missing key is a key  *)
(* outside the DOMAIN.  dict.get(k) yields <<>> (None) or <<v>>.           *)

Get(d, k) == IF k \in DOMAIN d THEN <<d[k]>> ELSE <<>>

GetOr(d, k, default) == IF k \in DOMAIN d THEN d[k] ELSE default

\* Python truthiness of an optional string: None and "" are falsy
Truthy(o) == o # <<>> /\ o[1] # ""

\* d[k] = v on a dict: adds the key or overwrites it
DictSet(d, k, v) == [x \in (DOMAIN d) \cup {k} |-> IF x = k THEN v ELSE d[x]]

\* dict.pop(k) on a present key
DictPop(d, k) == [x \in (DOMAIN d) \ {k} |-> d[x]]

\* datetime.utcnow().isoformat() + "Z": the instant the clock shows
utcnow == clock

\* a generator that numbers the items by the size of the store
uuid4_len == Cardinality(DOMAIN items) + 1

\* str(uuid.uuid4()): a value never drawn before; the k-th draw is named k
uuid4 == nextId

----------------------------------------------------------------------------
(* Request bodies *)

NameInputs == {"", "X"}

Bodies ==
    { [name |-> "X"], [description |-> ""] }
    \cup { [name |-> n, description |-> "d"] : n \in NameInputs }
    \cup { [name |-> "X", id |-> 0, created_at |-> 99, updated_at |-> 99] }

----------------------------------------------------------------------------
(* Startup *)

\* f"Sample Item {i}" and f"A sample item number {i}" for i in range(1, 4)
SampleName(i) == <<"Sample Item 1", "Sample Item 2", "Sample Item 3">>[i]
SampleDesc(i) ==
    <<"A sample item number 1", "A sample item number 2", "A sample item number 3">>[i]

NumSamples == 3

_create_sample_items ==
    [i \in 1..NumSamples |->
        [id |-> i, name |-> SampleName(i), description |-> SampleDesc(i),
         created_at |-> 0]]

Workers == 1..NumWorkers

NoReq == [op |-> "none", id |-> 0, body |-> [k \in {} |-> ""]]

NoResp == [op |-> "none", id |-> 0, status |-> 0, body |-> <<>>]

Init ==
    /\ items = _create_sample_items
    /\ nextId = NumSamples + 1
    /\ clock = 0
    /\ resp = NoResp
    /\ nreq = 0
    /\ held = 1..NumSamples
    /\ deleted = {}
    /\ fresh = [k \in {} |-> NoResp]
    /\ issued = {}
    /\ pc = [w \in Workers |-> "idle"]
    /\ wreq = [w \in Workers |-> NoReq]
    /\ wresp = [w \in Workers |-> NoResp]

----------------------------------------------------------------------------
(* Handlers, one request handled at a time *)

Reply(op, id, status, body) ==
    /\ nreq < MaxReq
    /\ nreq' = nreq + 1
    /\ resp' = [op |-> op, id |-> id, status |-> status, body |-> body]

\* history of the store, for stating the properties: the ids ever stored, the
\* ids deleted, and the items as create returned them that no update or
\* delete has touched since
Ghost ==
    /\ UNCHANGED <<issued, pc, wreq, wresp>>
    /\ held' = held \cup DOMAIN items'
    /\ deleted' = (deleted \cup (DOMAIN items \ DOMAIN items'))
    /\ fresh' = IF resp'.op = "create" /\ resp'.status = 201
                   THEN DictSet(fresh, resp'.id, resp'.body)
                ELSE IF resp'.op \in {"update", "delete"} /\ resp'.status = 200
                   THEN DictPop(fresh, resp'.id)
                ELSE fresh

NotFound == [error |-> "not found"]

\* a create that drops the description of the request
NewItem_nodesc(id, name, desc, now) ==
    [id |-> id, name |-> name, description |-> "", created_at |-> now]

\* the item create_item stores
NewItem(id, name, desc, now) ==
    [id |-> id, name |-> name, description |-> desc, created_at |-> now]

\* an update that copies every key of the request into the item
UpdateFields_merge(it, body, now) ==
    DictSet([x \in (DOMAIN it) \cup (DOMAIN body) |->
                IF x \in DOMAIN body THEN body[x] ELSE it[x]],
            "updated_at", now)

\* an update that takes the name whenever the key is present
UpdateFields_anyname(it, body, now) ==
    LET a == IF "name" \in DOMAIN body THEN DictSet(it, "name", body["name"]) ELSE it
        b == IF "description" \in DOMAIN body
                THEN DictSet(a, "description", body["description"]) ELSE a
    IN DictSet(b, "updated_at", now)

\* the fields update_item writes into a stored item
UpdateFields(it, body, now) ==
    LET name == Get(body, "name")
        a == IF Truthy(name) THEN DictSet(it, "name", name[1]) ELSE it
        b == IF "description" \in DOMAIN body
                THEN DictSet(a, "description", body["description"]) ELSE a
    IN DictSet(b, "updated_at", now)

list_items ==
    /\ Reply("list", 0, 200, {items[k] : k \in DOMAIN items})
    /\ UNCHANGED <<items, nextId, clock>>
    /\ Ghost

create_item(body) ==
    LET name == Get(body, "name")
        desc == GetOr(body, "description", "")
    IN IF ~Truthy(name)
       THEN /\ Reply("create", 0, 400, [error |-> "name required"])
            /\ UNCHANGED <<items, nextId, clock>>
            /\ Ghost
       ELSE /\ nextId <= MaxIds
            /\ LET id == uuid4
                   obj == NewItem(id, name[1], desc, utcnow)
               IN /\ items' = DictSet(items, id, obj)
                  /\ Reply("create", id, 201, obj)
            /\ nextId' = nextId + 1
            /\ UNCHANGED clock
            /\ Ghost

get_item(id) ==
    /\ IF id \notin DOMAIN items
       THEN Reply("get", id, 404, NotFound)
       ELSE Reply("get", id, 200, items[id])
    /\ UNCHANGED <<items, nextId, clock>>
    /\ Ghost

\* an update that stores the item when the id is not in the store
update_item_upsert(id, body) ==
    /\ items' = DictSet(items, id,
                    UpdateFields(IF id \in DOMAIN items THEN items[id]
                                 ELSE NewItem(id, "", "", utcnow), body, utcnow))
    /\ Reply("update", id, 200, items'[id])
    /\ UNCHANGED <<nextId, clock>>
    /\ Ghost

update_item(id, body) ==
    /\ IF id \notin DOMAIN items
       THEN /\ Reply("update", id, 404, NotFound)
            /\ UNCHANGED items
       ELSE /\ items' = [items EXCEPT ![id] = UpdateFields(items[id], body, utcnow)]
            /\ Reply("update", id, 200, items'[id])
    /\ UNCHANGED <<nextId, clock>>
    /\ Ghost

delete_item(id) ==
    /\ IF id \notin DOMAIN items
       THEN /\ Reply("delete", id, 404, NotFound)
            /\ UNCHANGED items
       ELSE /\ items' = DictPop(items, id)
            /\ Reply("delete", id, 200, [deleted |-> id])
    /\ UNCHANGED <<nextId, clock>>
    /\ Ghost

\* a metrics endpoint that counts the items ever created
api_metrics_created ==
    /\ Reply("metrics", 0, 200,
             [items_count |-> nextId - 1, memory_dummy |-> 0, requests |-> 0])
    /\ UNCHANGED <<items, nextId, clock>>
    /\ Ghost

api_metrics ==
    /\ Reply("metrics", 0, 200,
             [items_count |-> Cardinality(DOMAIN items), memory_dummy |-> 0, requests |-> 0])
    /\ UNCHANGED <<items, nextId, clock>>
    /\ Ghost

\* time passes between requests
Tick ==
    /\ clock < MaxClock
    /\ clock' = clock + 1
    /\ UNCHANGED <<items, nextId, resp, nreq, held, deleted, fresh, issued, pc, wreq, wresp>>

----------------------------------------------------------------------------
(* Token Service and Auth Guard.  Usernames, passwords and header prefixes *)
(* are sequences of characters.                                            *)

JWT_SECRET == "supersecret_demo_key"
JWT_ALGO == "HS256"
TOKEN_EXP_MINUTES == 60
APP_NAME == "usman-apis-dashboard"
VERSION == "v1"

TTL == TOKEN_EXP_MINUTES * 60

\* the instants around the issue and the expiry of a token
AuthInstants == (0..(Res - 1)) \cup { TTL * Res + k : k \in (-1)..Res }

\* the instants at which the model reads the clock
Instants == (0..MaxClock) \cup AuthInstants

\* int(time.time()) at tick c
int_time(c) == c \div Res

demo == <<"d", "e", "m", "o">>
demo_user == <<"d", "e", "m", "o", "_", "u", "s", "e", "r">>
bob == <<"b", "o", "b">>
Bearer_ == <<"B", "e", "a", "r", "e", "r", " ">>

\* Python `sub in s` on strings
Contains(s, sub) ==
    \E i \in 1..(Len(s) - Len(sub) + 1) : SubSeq(s, i, i + Len(sub) - 1) = sub

\* Python s.startswith(p)
StartsWith(s, p) == Len(s) >= Len(p) /\ SubSeq(s, 1, Len(p)) = p

\* truthiness of an optional character string
TruthyStr(o) == o # <<>> /\ Len(o[1]) > 0

\* HMAC of a payload under a key: only the same payload, key and algorithm
\* give the same signature
Sign(payload, key, alg) == <<payload, key, alg>>

\* jwt.encode(payload, key, algorithm)
jwt_encode(payload, key, alg) ==
    [wf |-> TRUE, payload |-> payload, alg |-> alg, sig |-> Sign(payload, key, alg)]

\* a decode that still accepts the token at the instant of its exp claim
jwt_decode_late(token, key, algorithms, now) ==
    IF ~token.wf
        THEN [ok |-> FALSE, error |-> "Not enough segments"]
    ELSE IF token.alg \notin algorithms
        THEN [ok |-> FALSE, error |-> "The specified alg value is not allowed"]
    ELSE IF token.sig # Sign(token.payload, key, token.alg)
        THEN [ok |-> FALSE, error |-> "Signature verification failed"]
    ELSE IF token.payload.exp * Res < now
        THEN [ok |-> FALSE, error |-> "Signature has expired"]
    ELSE [ok |-> TRUE, payload |-> token.payload]

\* a decode that does not verify the signature
jwt_decode_nosig(token, key, algorithms, now) ==
    IF ~token.wf
        THEN [ok |-> FALSE, error |-> "Not enough segments"]
    ELSE IF token.payload.exp * Res <= now
        THEN [ok |-> FALSE, error |-> "Signature has expired"]
    ELSE [ok |-> TRUE, payload |-> token.payload]

\* jwt.decode(token, key, algorithms) at tick now: the payload, or the
\* exception it raises
jwt_decode(token, key, algorithms, now) ==
    IF ~token.wf
        THEN [ok |-> FALSE, error |-> "Not enough segments"]
    ELSE IF token.alg \notin algorithms
        THEN [ok |-> FALSE, error |-> "The specified alg value is not allowed"]
    ELSE IF token.sig # Sign(token.payload, key, token.alg)
        THEN [ok |-> FALSE, error |-> "Signature verification failed"]
    ELSE IF token.payload.exp * Res <= now
        THEN [ok |-> FALSE, error |-> "Signature has expired"]
    ELSE [ok |-> TRUE, payload |-> token.payload]

\* generate_token reads the clock twice, at ticks t1 <= t2
generate_token(username, t1, t2) ==
    jwt_encode([sub |-> username, iat |-> int_time(t1), exp |-> int_time(t2) + TOKEN_EXP_MINUTES * 60,
                iss |-> APP_NAME, ver |-> VERSION],
               JWT_SECRET, JWT_ALGO)

Usernames == {<<>>, demo_user, bob}
Passwords == {<<>>, <<"d", "e", "m">>, <<"x">> \o demo \o <<"y">>}

LoginPayloads ==
    { [k \in {} |-> <<>>], [username |-> demo_user], [password |-> demo] }
    \cup { [username |-> u, password |-> p] : u \in Usernames, p \in Passwords }

\* a credential check that wants both the password and the username to match
credentials_both(username, password) ==
    /\ TruthyStr(username) /\ TruthyStr(password)
    /\ (Contains(password[1], demo) /\ username[1] = demo_user)

\* the credential check of api_login on the optional username and password
credentials(username, password) ==
    /\ TruthyStr(username) /\ TruthyStr(password)
    /\ (Contains(password[1], demo) \/ username[1] = demo_user)

api_login(payload) ==
    LET username == Get(payload, "username")
        password == Get(payload, "password")
    IN /\ IF credentials(username, password)
          THEN \E d \in 0..1 :
                 /\ clock + d \in Instants
                 /\ clock' = clock + d
                 /\ LET token == generate_token(username[1], clock, clock + d)
                    IN /\ Reply("login", 0, 200,
                                [token |-> token, expires_in_minutes |-> TOKEN_EXP_MINUTES])
                       /\ issued' = issued \cup {[token |-> token, at |-> clock]}
          ELSE /\ Reply("login", 0, 401, [error |-> "invalid credentials"])
               /\ UNCHANGED <<clock, issued>>
       /\ UNCHANGED <<items, nextId, held, deleted, fresh, pc, wreq, wresp>>

\* the body of the protected handler, run with request.user = user
api_secure(user) ==
    [message |-> <<"Hello ">> \o user \o <<", this is a protected endpoint.">>,
     issued_at |-> utcnow]

\* the token_required wrapper around api_secure; header is <<>> (no
\* Authorization header) or <<[prefix, token]>>, the header text being the
\* prefix followed by the token text, which holds no space
decorated(header) ==
    /\ IF header = <<>> \/ ~StartsWith(header[1].prefix, Bearer_)
       THEN Reply("secure", 0, 401, [error |-> "Missing or invalid Authorization header"])
       ELSE LET token == header[1].token
                decoded == jwt_decode(token, JWT_SECRET, {JWT_ALGO}, clock)
            IN IF ~decoded.ok
               THEN Reply("secure", 0, 401,
                          [error |-> "Invalid or expired token", detail |-> decoded.error])
               ELSE Reply("secure", 0, 200, api_secure(decoded.payload.sub))
    /\ UNCHANGED <<items, nextId, clock, held, deleted, fresh, issued, pc, wreq, wresp>>

Garbage == [wf |-> FALSE, payload |-> [sub |-> <<>>, iat |-> 0, exp |-> 0, iss |-> "", ver |-> ""],
            alg |-> "", sig |-> <<>>]

\* tokens an attacker can build from a token it has seen
Forgeries(t) ==
    { [t EXCEPT !.payload.exp = @ + TOKEN_EXP_MINUTES * 60],
      [t EXCEPT !.payload.sub = bob],
      jwt_encode(t.payload, "attacker_key", JWT_ALGO),
      [wf |-> TRUE, payload |-> t.payload, alg |-> "none", sig |-> <<>>] }

Prefixes == { Bearer_, <<"b", "e", "a", "r", "e", "r", " ">>, <<"B", "e", "a", "r", "e", "r">> }

Headers ==
    LET seen == {i.token : i \in issued}
        tokens == seen \cup UNION {Forgeries(t) : t \in seen} \cup {Garbage}
    IN {<<>>}
       \cup { <<[prefix |-> Bearer_, token |-> t]>> : t \in tokens }
       \cup { <<[prefix |-> p, token |-> t]>> : p \in Prefixes, t \in seen \cup {Garbage} }

Login == \E payload \in LoginPayloads : api_login(payload)
Secure == \E header \in Headers : decorated(header)

\* time passes between requests, up to and past the expiry of a token
Elapse ==
    /\ \E c \in AuthInstants : c > clock /\ clock' = c
    /\ UNCHANGED <<items, nextId, resp, nreq, held, deleted, fresh, issued, pc, wreq, wresp>>

Create == \E body \in Bodies : create_item(body)
GetOne == \E id \in Ids : get_item(id)
Update == \E id \in Ids, body \in Bodies : update_item(id, body)
Delete == \E id \in Ids : delete_item(id)

Next ==
    \/ list_items
    \/ Create
    \/ GetOne
    \/ Update
    \/ Delete
    \/ api_metrics
    \/ Login
    \/ Secure

\* every endpoint, one request at a time and back to back: the clock moves
\* only while a handler runs
Spec == Init /\ [][Next]_vars

NextStore ==
    \/ list_items
    \/ Create
    \/ GetOne
    \/ Update
    \/ Delete
    \/ api_metrics
    \/ Tick

\* the Item Store endpoints, with time passing between the requests
SpecStore == Init /\ [][NextStore]_vars

NextAuth ==
    \/ Login
    \/ Secure
    \/ Elapse

\* the login and guard endpoints alone, over the lifetime of a token
SpecAuth == Init /\ [][NextAuth]_vars

----------------------------------------------------------------------------
(* The same handlers run by worker threads of the threaded server, with no *)
(* lock around _items: a thread switch can fall between two statements of  *)
(* a handler.  A KeyError raised by a statement ends the request with 500. *)

ConcBodies == { [name |-> "X"], [description |-> "d"] }

ConcRequests ==
    { [op |-> "list", id |-> 0, body |-> [k \in {} |-> ""]] }
    \cup { [op |-> "create", id |-> 0, body |-> b] : b \in ConcBodies }
    \cup { [op |-> o, id |-> i, body |-> [k \in {} |-> ""]] : o \in {"get", "delete"}, i \in Ids }
    \cup { [op |-> "update", id |-> i, body |-> b] : i \in Ids, b \in ConcBodies }

Entry(op) ==
    CASE op = "list" -> "l_ret"
      [] op = "create" -> "c_store"
      [] op = "get" -> "g_check"
      [] op = "update" -> "u_check"
      [] op = "delete" -> "d_check"

Goto(w, label) == pc' = [pc EXCEPT ![w] = label]

Finish(w, status, body) ==
    /\ pc' = [pc EXCEPT ![w] = "idle"]
    /\ wresp' = [wresp EXCEPT ![w] =
                    [op |-> wreq[w].op, id |-> wreq[w].id, status |-> status, body |-> body]]

InternalError == [error |-> "KeyError"]

Shared ==
    /\ held' = held \cup DOMAIN items'
    /\ deleted' = (deleted \cup (DOMAIN items \ DOMAIN items'))
    /\ UNCHANGED <<clock, resp, fresh, issued>>

\* a request arrives and is given to an idle worker
Begin(w) ==
    /\ pc[w] = "idle"
    /\ nreq < MaxReq
    /\ nreq' = nreq + 1
    /\ \E r \in ConcRequests :
         /\ wreq' = [wreq EXCEPT ![w] = r]
         /\ Goto(w, Entry(r.op))
    /\ wresp' = [wresp EXCEPT ![w] = NoResp]
    /\ UNCHANGED <<items, nextId>>
    /\ Shared

l_ret(w) ==
    /\ pc[w] = "l_ret"
    /\ Finish(w, 200, {items[k] : k \in DOMAIN items})
    /\ UNCHANGED <<items, nextId, nreq, wreq>>
    /\ Shared

c_store(w) ==
    /\ pc[w] = "c_store"
    /\ LET name == Get(wreq[w].body, "name")
           desc == GetOr(wreq[w].body, "description", "")
       IN IF ~Truthy(name)
          THEN /\ Finish(w, 400, [error |-> "name required"])
               /\ UNCHANGED <<items, nextId>>
          ELSE /\ nextId <= MaxIds
               /\ LET obj == NewItem(uuid4, name[1], desc, utcnow)
                  IN /\ items' = DictSet(items, uuid4, obj)
                     /\ Finish(w, 201, obj)
               /\ nextId' = nextId + 1
    /\ UNCHANGED <<nreq, wreq>>
    /\ Shared

g_check(w) ==
    /\ pc[w] = "g_check"
    /\ IF wreq[w].id \notin DOMAIN items
       THEN Finish(w, 404, NotFound)
       ELSE Goto(w, "g_ret") /\ UNCHANGED wresp
    /\ UNCHANGED <<items, nextId, nreq, wreq>>
    /\ Shared

g_ret(w) ==
    /\ pc[w] = "g_ret"
    /\ IF wreq[w].id \notin DOMAIN items
       THEN Finish(w, 500, InternalError)
       ELSE Finish(w, 200, items[wreq[w].id])
    /\ UNCHANGED <<items, nextId, nreq, wreq>>
    /\ Shared

u_check(w) ==
    /\ pc[w] = "u_check"
    /\ IF wreq[w].id \notin DOMAIN items
       THEN Finish(w, 404, NotFound)
       ELSE Goto(w, "u_name") /\ UNCHANGED wresp
    /\ UNCHANGED <<items, nextId, nreq, wreq>>
    /\ Shared

\* if name: _items[id]["name"] = name
u_name(w) ==
    /\ pc[w] = "u_name"
    /\ LET id == wreq[w].id
           name == Get(wreq[w].body, "name")
       IN IF ~Truthy(name)
          THEN Goto(w, "u_desc") /\ UNCHANGED <<items, wresp>>
          ELSE IF id \notin DOMAIN items
               THEN Finish(w, 500, InternalError) /\ UNCHANGED items
               ELSE /\ items' = [items EXCEPT ![id] = DictSet(@, "name", name[1])]
                    /\ Goto(w, "u_desc")
                    /\ UNCHANGED wresp
    /\ UNCHANGED <<nextId, nreq, wreq>>
    /\ Shared

\* if "description" in body: _items[id]["description"] = body["description"]
u_desc(w) ==
    /\ pc[w] = "u_desc"
    /\ LET id == wreq[w].id
           body == wreq[w].body
       IN IF "description" \notin DOMAIN body
          THEN Goto(w, "u_stamp") /\ UNCHANGED <<items, wresp>>
          ELSE IF id \notin DOMAIN items
               THEN Finish(w, 500, InternalError) /\ UNCHANGED items
               ELSE /\ items' = [items EXCEPT ![id] = DictSet(@, "description", body["description"])]
                    /\ Goto(w, "u_stamp")
                    /\ UNCHANGED wresp
    /\ UNCHANGED <<nextId, nreq, wreq>>
    /\ Shared

\* _items[id]["updated_at"] = now
u_stamp(w) ==
    /\ pc[w] = "u_stamp"
    /\ LET id == wreq[w].id
       IN IF id \notin DOMAIN items
          THEN Finish(w, 500, InternalError) /\ UNCHANGED items
          ELSE /\ items' = [items EXCEPT ![id] = DictSet(@, "updated_at", utcnow)]
               /\ Goto(w, "u_ret")
               /\ UNCHANGED wresp
    /\ UNCHANGED <<nextId, nreq, wreq>>
    /\ Shared

\* return jsonify(_items[id])
u_ret(w) ==
    /\ pc[w] = "u_ret"
    /\ IF wreq[w].id \notin DOMAIN items
       THEN Finish(w, 500, InternalError)
       ELSE Finish(w, 200, items[wreq[w].id])
    /\ UNCHANGED <<items, nextId, nreq, wreq>>
    /\ Shared

d_check(w) ==
    /\ pc[w] = "d_check"
    /\ IF wreq[w].id \notin DOMAIN items
       THEN Finish(w, 404, NotFound)
       ELSE Goto(w, "d_pop") /\ UNCHANGED wresp
    /\ UNCHANGED <<items, nextId, nreq, wreq>>
    /\ Shared

\* obj = _items.pop(id)
d_pop(w) ==
    /\ pc[w] = "d_pop"
    /\ LET id == wreq[w].id
       IN IF id \notin DOMAIN items
          THEN Finish(w, 500, InternalError) /\ UNCHANGED items
          ELSE /\ items' = DictPop(items, id)
               /\ Finish(w, 200, [deleted |-> id])
    /\ UNCHANGED <<nextId, nreq, wreq>>
    /\ Shared

NextConc ==
    \E w \in Workers :
        \/ Begin(w)
        \/ l_ret(w)
        \/ c_store(w)
        \/ g_check(w)
        \/ g_ret(w)
        \/ u_check(w)
        \/ u_name(w)
        \/ u_desc(w)
        \/ u_stamp(w)
        \/ u_ret(w)
        \/ d_check(w)
        \/ d_pop(w)

SpecConc == Init /\ [][NextConc]_vars

----------------------------------------------------------------------------
(* Properties *)

\* this step handled a request of the kind op
Handled(op) == nreq' = nreq + 1 /\ resp'.op = op

\* C1: with requests handled concurrently by separate workers, every request
\* ends as some serial execution of the handlers could end it: 200, 201, 400
\* or 404, and an update racing a delete of the same id ends with 200 or 404.
C1_SerialOutcome ==
    \A w \in Workers :
        /\ wresp[w].status \in {0, 200, 201, 400, 404}
        /\ wresp[w].op = "update" => wresp[w].status \in {0, 200, 404}

\* C2: every key k of the store maps to an item whose id field is k.
C2_KeyIsId == \A k \in DOMAIN items : items[k].id = k

\* C2 witness: the store after a create, with an updated item and a deleted one
C2_Witness ==
    /\ nextId > NumSamples + 1
    /\ deleted # {}
    /\ \E k \in DOMAIN items : "updated_at" \in DOMAIN items[k]

\* C3: the id a successful create generates was never held by the store
\* before (sample items and deleted items included), and the create changes
\* no item the store already holds.
C3_FreshId ==
    [][Handled("create") => \A body \in Bodies :
          (create_item(body) /\ resp'.status = 201) =>
              /\ resp'.id \notin held
              /\ resp'.id \notin DOMAIN items
              /\ resp'.id \in DOMAIN items'
              /\ \A k \in DOMAIN items : k \in DOMAIN items' /\ items'[k] = items[k]]_vars

\* C3 witness: a create has succeeded after a delete
C3_Witness == resp.op = "create" /\ resp.status = 201 /\ deleted # {}

\* C4: once delete(id) has succeeded, every later get, update and delete of
\* that id answers 404, whatever was executed in between.
C4_DeletionFinal ==
    [][(nreq' = nreq + 1 /\ resp'.id \in deleted) =>
          LET id == resp'.id
          IN (get_item(id) \/ delete_item(id) \/ \E body \in Bodies : update_item(id, body))
                => resp'.status = 404]_vars

\* C4 witness: a deleted id was asked for again after a further create
C4_Witness ==
    /\ resp.op \in {"get", "update", "delete"}
    /\ resp.id \in deleted
    /\ resp.status = 404
    /\ nextId > NumSamples + 1

\* C5: a successful update changes name only for a non-empty name in the
\* request and description only when the key is present, leaves id,
\* created_at and every other item alone, and sets updated_at; an item
\* carries updated_at exactly when it has been updated successfully.
C5_UpdatePartial ==
    /\ \A k \in DOMAIN items : "updated_at" \notin DOMAIN items[k]
    /\ [][/\ (Handled("update") /\ resp'.status = 200) => \A body \in Bodies :
               update_item(resp'.id, body) =>
                  LET id == resp'.id
                      old == items[id]
                      new == items'[id]
                  IN /\ new.name = IF "name" \in DOMAIN body /\ body.name # ""
                                      THEN body.name ELSE old.name
                     /\ new.description = IF "description" \in DOMAIN body
                                             THEN body.description ELSE old.description
                     /\ new.id = old.id
                     /\ new.created_at = old.created_at
                     /\ "updated_at" \in DOMAIN new
                     /\ DOMAIN items' = DOMAIN items
                     /\ \A k \in DOMAIN items \ {id} : items'[k] = items[k]
          /\ \A k \in DOMAIN items' :
               ("updated_at" \in DOMAIN items'[k]) <=>
                  \/ k \in DOMAIN items /\ "updated_at" \in DOMAIN items[k]
                  \/ /\ Handled("update") /\ resp'.status = 200 /\ resp'.id = k
                     /\ \E body \in Bodies : update_item(k, body)]_vars

\* C5 witness: an update carrying only an empty description has kept the name
C5_Witness ==
    /\ resp.op = "update"
    /\ resp.status = 200
    /\ resp.id \in 1..NumSamples
    /\ resp.body.name = SampleName(resp.id)
    /\ resp.body.description = ""
    /\ "updated_at" \in DOMAIN resp.body

\* C6: create with a non-empty name X and optional description D answers 201
\* with an item of a generated id, name X and description D ("" when
\* omitted); a get of that id before any update or delete of it answers 200
\* with exactly that item.
C6_RoundTrip ==
    /\ [](resp.op = "get" /\ resp.id \in DOMAIN fresh =>
            resp.status = 200 /\ resp.body = fresh[resp.id])
    /\ [][Handled("create") => \A body \in Bodies :
            (create_item(body) /\ "name" \in DOMAIN body /\ body.name # "") =>
               /\ resp'.status = 201
               /\ resp'.body.id \in Ids
               /\ resp'.body.id = resp'.id
               /\ resp'.body.name = body.name
               /\ resp'.body.description =
                     (IF "description" \in DOMAIN body THEN body.description ELSE "")
               /\ "created_at" \in DOMAIN resp'.body
               /\ resp'.id \in DOMAIN fresh' /\ fresh'[resp'.id] = resp'.body]_vars

\* C6 witness: a get of an item as create returned it
C6_Witness ==
    /\ resp.op = "get"
    /\ resp.id \in DOMAIN fresh
    /\ resp.status = 200
    /\ resp.body.name = "X"
    /\ resp.body.description = "d"

\* the text of an optional request field, "" when the field is absent
Text(payload, k) == IF k \in DOMAIN payload THEN payload[k] ELSE <<>>

\* C7 as stated: login answers 200 with a token exactly when the password
\* contains "demo" or the username is "demo_user", absent or empty fields
\* included, and 401 otherwise.
C7_LoginRule ==
    [][Handled("login") => \A payload \in LoginPayloads :
          api_login(payload) =>
             /\ resp'.status \in {200, 401}
             /\ resp'.status = 200 <=>
                   \/ Contains(Text(payload, "password"), demo)
                   \/ Text(payload, "username") = demo_user]_vars

\* C7 amended: login answers 200 with a token exactly when username and
\* password are both present and non-empty and the password contains "demo"
\* or the username is "demo_user"; it answers 401 otherwise.
C7_LoginRuleBothPresent ==
    [][Handled("login") => \A payload \in LoginPayloads :
          api_login(payload) =>
             /\ resp'.status \in {200, 401}
             /\ resp'.status = 200 <=>
                   /\ Text(payload, "username") # <<>>
                   /\ Text(payload, "password") # <<>>
                   /\ \/ Contains(Text(payload, "password"), demo)
                      \/ Text(payload, "username") = demo_user
             /\ resp'.status = 200 =>
                   /\ resp'.body.token.wf
                   /\ resp'.body.token.payload.sub = payload.username]_vars

\* C7 witness: a login of another user whose password only contains "demo"
C7_Witness ==
    /\ resp.op = "login"
    /\ resp.status = 200
    /\ resp.body.token.payload.sub = bob

\* the guard lets this token through at tick now
Validates(token, now) == jwt_decode(token, JWT_SECRET, {JWT_ALGO}, now).ok

\* C8 as stated: a token issued at time t validates at every clock value
\* from t up to but excluding t + TTL and fails at every clock value at or
\* past t + TTL.
C8_LifetimeFromIssue ==
    \A i \in issued : Validates(i.token, clock) <=> clock < i.at + TTL * Res

\* C8 amended: a token validates at every clock value before its exp claim
\* and fails at or past it, where exp is the whole second of the clock read
\* while issuing plus the TTL, so at most one second before t + TTL; nothing
\* but the clock changes whether it validates, and a request through the
\* guard changes neither the store nor the tokens.
C8_LifetimeToExp ==
    /\ [](\A i \in issued :
            /\ Validates(i.token, clock) <=> clock < i.token.payload.exp * Res
            /\ i.token.payload.exp >= int_time(i.at) + TTL
            /\ i.token.payload.exp * Res > i.at + (TTL - 1) * Res
            /\ i.token.payload.exp <= int_time(i.at + 1) + TTL)
    /\ [][Handled("secure") => \A h \in Headers :
            decorated(h) => items' = items /\ issued' = issued /\ clock' = clock]_vars

\* C8 witness: an issued token was refused as expired
C8_Witness ==
    /\ resp.op = "secure"
    /\ resp.status = 401
    /\ "detail" \in DOMAIN resp.body
    /\ resp.body.detail = "Signature has expired"
    /\ \E i \in issued : ~Validates(i.token, clock)

\* C9: the protected handler runs, answering 200, only for a header that
\* starts with "Bearer " and carries a token login issued and that has not
\* expired; every other request gets 401; the 200 message contains the
\* subject the token was issued for.
C9_AuthGate ==
    [][Handled("secure") => \A h \in Headers :
          decorated(h) =>
             /\ resp'.status \in {200, 401}
             /\ resp'.status = 200 <=>
                   /\ h # <<>>
                   /\ StartsWith(h[1].prefix, Bearer_)
                   /\ \E i \in issued :
                        /\ i.token = h[1].token
                        /\ clock < i.token.payload.exp * Res
             /\ resp'.status = 200 =>
                   /\ "message" \in DOMAIN resp'.body
                   /\ Contains(resp'.body.message, h[1].token.payload.sub)
             /\ resp'.status = 401 => "message" \notin DOMAIN resp'.body]_vars

\* C9 witness: the protected handler has greeted the subject of a token
C9_Witness ==
    /\ resp.op = "secure"
    /\ resp.status = 200
    /\ \E i \in issued : Contains(resp.body.message, i.token.payload.sub)

\* C10: a create without a name answers 400, a get, update or delete of an
\* id not in the store answers 404, and these and every list, get, metrics,
\* login and secure request leave the store as it was; list answers the
\* stored items and metrics items_count their number.
C10_StoreUnchanged ==
    [][/\ Handled("create") => \A body \in Bodies :
            (create_item(body) /\ ("name" \notin DOMAIN body \/ body.name = ""))
               => resp'.status = 400
       /\ (nreq' = nreq + 1 /\ resp'.id \in Ids \ DOMAIN items) =>
            LET id == resp'.id
            IN (get_item(id) \/ delete_item(id) \/ \E body \in Bodies : update_item(id, body))
                  => resp'.status = 404
       /\ (nreq' = nreq + 1 /\ (\/ resp'.status \in {400, 401, 404}
                            \/ resp'.op \in {"list", "get", "metrics", "login", "secure"}))
               => items' = items
       /\ (nreq' = nreq + 1 /\ resp'.op = "list")
               => resp'.body = {items'[k] : k \in DOMAIN items'}
       /\ (nreq' = nreq + 1 /\ resp'.op = "metrics")
               => resp'.body.items_count = Cardinality(DOMAIN items')]_vars

\* C10 witness: an update of an id the store no longer holds was refused
C10_Witness ==
    /\ resp.op = "update"
    /\ resp.status = 404
    /\ resp.id \in deleted
    /\ Cardinality(DOMAIN items) = NumSamples - 1

====
